---- MODULE Spec2Model ----
(***************************************************************************)
(* Model of src/src/raydium.rs: the invocations of Raydium::swap, from the  *)
(* resolution of the pool keys to the submission of the signed transaction *)
(* and the diagnostic simulation, with handle_token_account,               *)
(* create_init_token, generate_pub_key and make_compute_budget_ixs.        *)
(* Spec runs one invocation over all arguments, SpecSlippage the quote     *)
(* step over every slippage_bps, SpecTwo two interleaved invocations.      *)
(*                                                                         *)
(* The calls into the RPC node, the AMM library and the terminal are the   *)
(* environment: each returns Ok or Err (and its Ok value) by a             *)
(* nondeterministic choice.  Every `?` in the source is an early return of *)
(* Err, every unwrap() on an Err is a panic.                               *)
(***************************************************************************)
EXTENDS Integers, Sequences, FiniteSets, TLC

(* ---------------------------- bounds ----------------------------------- *)
\* amount_specified ranges over 0..MaxAmount
MaxAmount == 2
\* the vault amounts sampled from the pool are 0, 1 or MaxReserve
MaxReserve == 5000
\* u64 arithmetic is modelled modulo U64Modulus (a scaled-down 2^64)
U64Modulus == 8

(* ------------------------- program constants --------------------------- *)
\* make_compute_budget_ixs(25000, 600000)
COMPUTE_UNIT_PRICE == 25000
COMPUTE_UNIT_LIMIT == 600000
\* spl_token::state::Account::LEN
ACCOUNT_LEN == 165

(* ------------------------------ values --------------------------------- *)
\* constants::SOLANA_PROGRAM_ID is the native mint; A and B are token mints
SOLANA_PROGRAM_ID == "SOL"
Mints == {SOLANA_PROGRAM_ID, "A", "B"}
\* the (coin mint, pc mint) pairs load_amm_keys may resolve
Pools == {<<"A", "B">>, <<SOLANA_PROGRAM_ID, "A">>, <<"B", SOLANA_PROGRAM_ID>>}
Amounts == 0..MaxAmount
Reserves == {0, 1, MaxReserve}
\* (swap_fee_numerator, swap_fee_denominator) of the pool
Fees == {<<25, 10000>>}
Slippages == {0, 50, 10000}
\* answers of get_minimum_balance_for_rent_exemption
Rents == {1, U64Modulus - 1}
Wallet == "wallet"

NoAddress == [kind |-> "none", base |-> "-", mint |-> "-", seed |-> 0]
NoKeys == [amm_coin_mint |-> "-", amm_pc_mint |-> "-"]
NoArgs ==
  [input_token_mint |-> "-", output_token_mint |-> "-", slippage_bps |-> 0,
   amount_specified |-> 0, swap_base_in |-> FALSE, confirmed |-> FALSE]
NoVaults ==
  [pool_pc_vault_amount |-> 0, pool_coin_vault_amount |-> 0,
   swap_fee_numerator |-> 0, swap_fee_denominator |-> 0]
NoIx == [op |-> "none"]
NoTx == [instructions |-> <<>>, payer |-> "-", signed |-> FALSE, blockhash |-> 0]

VARIABLES
  frames,   \* the locals of each invocation of Raydium::swap: a record of
            \*   pc: the statement the invocation is at
            \*   args: the arguments of the call
            \*   amm_keys: the pool's mints, from load_amm_keys
            \*   vault_amounts: `result` of calculate_pool_vault_amounts
            \*   direction: the SwapDirection of lines 61-67
            \*   other_amount_threshold: the result of swap_with_slippage
            \*   swap: the Swap struct, the pre/post instruction lists
            \*   user_source, user_destination: the prepared token accounts
            \*   rents: `rent` read by the two calls of handle_token_account
            \*   swap_ix: the swap instruction
            \*   ixs: ixs.concat(), the list that is signed
            \*   tx: the signed transaction
            \*   result: what the invocation returned (pending, Ok, Err, panic)
            \*   log: its calls to the environment, in order
  rng       \* number of keypairs drawn from Keypair::new(), by all invocations

vars == <<frames, rng>>

\* the invocations in flight
Invocations == DOMAIN frames

(* ------------------------- pure functions ------------------------------ *)
\* mutant: the seed is left out of the derivation
generate_pub_key_NoSeed(from, seed) ==
  [kind |-> "with_seed", base |-> from, mint |-> "-", seed |-> 0]

\* Pubkey::create_with_seed(from, seed, &spl_token::id())
generate_pub_key(from, seed) ==
  [kind |-> "with_seed", base |-> from, mint |-> "-", seed |-> seed]

\* spl_associated_token_account::get_associated_token_address(owner, mint)
get_associated_token_address(owner, mint) ==
  [kind |-> "ata", base |-> owner, mint |-> mint, seed |-> 0]

create_init_token(token, seed, mint, owner, funding, lamports) ==
  << [op |-> "create_account_with_seed", account |-> token, funding |-> funding,
      base |-> owner, seed |-> seed, lamports |-> lamports,
      space |-> ACCOUNT_LEN],
     [op |-> "initialize_account", account |-> token, mint |-> mint,
      owner |-> owner] >>

\* common::close_account(&token, owner, owner)
close_account(token, destination, authority) ==
  << [op |-> "close_account", account |-> token, destination |-> destination,
      authority |-> authority] >>

\* mutant: the plain create instruction, which fails on an existing account
create_ata_token_or_not_Plain(funding, mint, owner) ==
  << [op |-> "create_associated_token_account",
      account |-> [kind |-> "ata", base |-> owner, mint |-> mint, seed |-> 0],
      funding |-> funding, owner |-> owner, mint |-> mint] >>

\* common::create_ata_token_or_not(funding, &mint, owner): called without the
\* RPC client, so its result cannot depend on what exists on chain; it is the
\* idempotent create instruction of the associated token account
create_ata_token_or_not(funding, mint, owner) ==
  << [op |-> "create_associated_token_account_idempotent",
      account |-> get_associated_token_address(owner, mint),
      funding |-> funding, owner |-> owner, mint |-> mint] >>

make_compute_budget_ixs(price, units) ==
  << [op |-> "set_compute_unit_price", price |-> price],
     [op |-> "set_compute_unit_limit", units |-> units] >>

\* mutant: only the input mint is compared
SwapDirection_InputOnly(input_token_mint, output_token_mint, keys) ==
  IF input_token_mint = keys.amm_coin_mint THEN "Coin2PC" ELSE "PC2Coin"

\* lines 61-67
SwapDirection(input_token_mint, output_token_mint, keys) ==
  IF input_token_mint = keys.amm_coin_mint
     /\ output_token_mint = keys.amm_pc_mint
  THEN "Coin2PC" ELSE "PC2Coin"

\* mutant: source and destination are passed in the wrong order
amm_swap_Crossed(source, destination, amount, threshold, base_in) ==
  [op |-> "swap", source |-> destination, destination |-> source,
   amount |-> amount, threshold |-> threshold, base_in |-> base_in]

\* amm::instructions::swap(.., &user_source, &user_destination,
\*                         amount_specified, other_amount_threshold, swap_base_in)
amm_swap(source, destination, amount, threshold, base_in) ==
  [op |-> "swap", source |-> source, destination |-> destination,
   amount |-> amount, threshold |-> threshold, base_in |-> base_in]

\* mutant: the post-swap instructions are placed before the swap instruction
ConcatIxs_PostBeforeSwap(pre, sw, post) ==
  make_compute_budget_ixs(COMPUTE_UNIT_PRICE, COMPUTE_UNIT_LIMIT)
    \o pre \o post \o <<sw>>

\* mutant: the swap instruction is placed before the pre-swap instructions
ConcatIxs_SwapBeforePre(pre, sw, post) ==
  make_compute_budget_ixs(COMPUTE_UNIT_PRICE, COMPUTE_UNIT_LIMIT)
    \o <<sw>> \o pre \o post

\* lines 121-126 and ixs.concat() at line 151
ConcatIxs(pre, sw, post) ==
  make_compute_budget_ixs(COMPUTE_UNIT_PRICE, COMPUTE_UNIT_LIMIT)
    \o pre \o <<sw>> \o post

(* The quote: amm::swap_with_slippage of raydium_library, called at lines     *)
(* 68-77.  -1 stands for the panic of an unwrap() on None (a checked_*      *)
(* operation that failed).  The amounts of the model stay far below 2^64,   *)
(* so no multiplication overflows.                                          *)
TEN_THOUSAND == 10000

\* CheckedCeilDiv::checked_ceil_div: None on a zero divisor; a zero quotient
\* is rounded to 1 when the dividend is at least half the divisor
checked_ceil_div(a, b) ==
  IF b = 0 THEN -1
  ELSE IF a \div b = 0 THEN (IF a * 2 >= b THEN 1 ELSE 0)
  ELSE IF a % b > 0 THEN (a \div b) + 1 ELSE a \div b

\* Calculator::swap_token_amount_base_in
swap_token_amount_base_in(amount_in, total_pc, total_coin, dir) ==
  LET denominator == IF dir = "Coin2PC" THEN total_coin + amount_in
                                        ELSE total_pc + amount_in
      other == IF dir = "Coin2PC" THEN total_pc ELSE total_coin
  IN IF denominator = 0 THEN -1 ELSE (other * amount_in) \div denominator

\* Calculator::swap_token_amount_base_out
swap_token_amount_base_out(amount_out, total_pc, total_coin, dir) ==
  LET denominator == IF dir = "Coin2PC" THEN total_pc - amount_out
                                        ELSE total_coin - amount_out
      other == IF dir = "Coin2PC" THEN total_coin ELSE total_pc
  IN IF denominator < 0 THEN -1
     ELSE checked_ceil_div(other * amount_out, denominator)

\* amm::swap_exact_amount: the unslipped counter-amount
swap_exact_amount(pc_vault, coin_vault, fee_num, fee_den, dir, amount, base_in) ==
  IF base_in
  THEN LET swap_fee == checked_ceil_div(amount * fee_num, fee_den)
       IN IF swap_fee = -1 \/ swap_fee > amount THEN -1
          ELSE swap_token_amount_base_in(amount - swap_fee, pc_vault,
                                         coin_vault, dir)
  ELSE LET before_fee == swap_token_amount_base_out(amount, pc_vault,
                                                    coin_vault, dir)
       IN IF before_fee = -1 \/ fee_den < fee_num THEN -1
          ELSE checked_ceil_div(before_fee * fee_den, fee_den - fee_num)

\* common::min_amount_with_slippage
min_amount_with_slippage(input_amount, slippage_bps) ==
  IF slippage_bps > TEN_THOUSAND THEN -1
  ELSE (input_amount * (TEN_THOUSAND - slippage_bps)) \div TEN_THOUSAND

\* common::max_amount_with_slippage
max_amount_with_slippage(input_amount, slippage_bps) ==
  (input_amount * (slippage_bps + TEN_THOUSAND)) \div TEN_THOUSAND

\* mutant: the slippage is applied on the wrong side
swap_with_slippage_WrongSide(pc_vault, coin_vault, fee_num, fee_den, dir, amount, base_in, slippage_bps) ==
  LET exact == swap_exact_amount(pc_vault, coin_vault, fee_num, fee_den, dir,
                                 amount, base_in)
  IN IF exact = -1 THEN -1
     ELSE IF base_in THEN max_amount_with_slippage(exact, slippage_bps)
     ELSE min_amount_with_slippage(exact, slippage_bps)

\* amm::swap_with_slippage: min out when swap_base_in, max in otherwise
swap_with_slippage(pc_vault, coin_vault, fee_num, fee_den, dir, amount, base_in, slippage_bps) ==
  LET exact == swap_exact_amount(pc_vault, coin_vault, fee_num, fee_den, dir,
                                 amount, base_in)
  IN IF exact = -1 THEN -1
     ELSE IF base_in THEN min_amount_with_slippage(exact, slippage_bps)
     ELSE max_amount_with_slippage(exact, slippage_bps)

\* lines 68-77: the quote for the sampled vault amounts
Quote(v, dir, a) ==
  swap_with_slippage(v.pool_pc_vault_amount, v.pool_coin_vault_amount,
                     v.swap_fee_numerator, v.swap_fee_denominator, dir,
                     a.amount_specified, a.swap_base_in, a.slippage_bps)

\* rent + amount on u64: the sum when it fits; on overflow the wrapped sum
\* (build without overflow checks) or -1, the arithmetic-overflow panic
\* (build with overflow checks)
AddU64(a, b) ==
  IF a + b < U64Modulus THEN {a + b} ELSE {(a + b) % U64Modulus, -1}

\* handle_token_account(swap, provider, mint, amount, owner, funding): the
\* set of its outcomes.  seed is the seed cut from Keypair::new(): a fresh
\* random key, modelled as a value never drawn before (rng + 1)
handle_token_account(sw, mint, amount, owner, funding, seed) ==
  IF mint = SOLANA_PROGRAM_ID
  THEN {[status |-> "Err", token |-> NoAddress, swap |-> sw, seeds |-> 0,
         rent |-> 0]}
       \cup
       { IF rl[2] = -1
         THEN [status |-> "panic", token |-> NoAddress, swap |-> sw,
               seeds |-> 0, rent |-> rl[1]]
         ELSE LET lamports == rl[2]
                  token == generate_pub_key(owner, seed)
                  init_ixs == create_init_token(token, seed, mint, owner,
                                                funding, lamports)
                  close_ixs == close_account(token, owner, owner)
              IN [status |-> "Ok", token |-> token, seeds |-> 1,
                  rent |-> rl[1],
                  swap |-> [pre_swap_instructions |->
                              sw.pre_swap_instructions \o init_ixs,
                            post_swap_instructions |->
                              sw.post_swap_instructions \o close_ixs]]
         : rl \in UNION {{<<rent, l>> : l \in AddU64(rent, amount)} :
                           rent \in Rents} }
  ELSE LET token == get_associated_token_address(owner, mint)
           ata_ixs == create_ata_token_or_not(funding, mint, owner)
       IN {[status |-> "Ok", token |-> token, seeds |-> 0, rent |-> 0,
            swap |-> [pre_swap_instructions |->
                        sw.pre_swap_instructions \o ata_ixs,
                      post_swap_instructions |-> sw.post_swap_instructions]]}

\* mutant: the error of the call is dropped and the pipeline goes on
Try_Ignore(ok, next) == next

\* the `?` operator: go on when the call returned Ok, return to the caller
\* when it returned Err
Try(ok, next) == IF ok THEN next ELSE "returned"

\* mutant: the gate is consulted whatever `confirmed` says
AfterAssembly_AlwaysAsk(confirmed) == "confirm"

\* line 142: the statement after the instruction list is assembled
AfterAssembly(confirmed) ==
  IF confirmed THEN "get_latest_blockhash" ELSE "confirm"

\* mutant: the answer of the gate is not looked at
AfterConfirm_Ignore(yes) == "get_latest_blockhash"

\* lines 142-149: the statement after the confirmation gate answered
AfterConfirm(yes) == IF yes THEN "get_latest_blockhash" ELSE "returned"

\* mutant: the simulation is run whatever send_tx returned
AfterSendTx_AlwaysSimulate(ok) == "simulate_transaction"

\* lines 156-168: the statement after send_tx returned
AfterSendTx(ok) == IF ok THEN "returned" ELSE "simulate_transaction"

\* line 169: the value returned after the Err arm of the match
ResultAfterSimulation == "Ok"

(* ------------------------------ Init ----------------------------------- *)
\* the locals of an invocation that has not started
Frame0 ==
  [pc |-> "idle", args |-> NoArgs, amm_keys |-> NoKeys,
   vault_amounts |-> NoVaults, direction |-> "-",
   other_amount_threshold |-> 0,
   swap |-> [pre_swap_instructions |-> <<>>, post_swap_instructions |-> <<>>],
   user_source |-> NoAddress, user_destination |-> NoAddress,
   rents |-> [source |-> 0, destination |-> 0],
   swap_ix |-> NoIx, ixs |-> <<>>, tx |-> NoTx,
   result |-> "pending", log |-> <<>>]

\* Raydium::new() has no field: one caller, one invocation, nothing drawn
Init ==
  /\ frames = [i \in {1} |-> Frame0]
  /\ rng = 0

(* ----------------------------- actions --------------------------------- *)
\* the caller invokes Raydium::swap
Call(i) ==
  LET f == frames[i]
  IN /\ f.pc = "idle"
     /\ \E im \in Mints, om \in Mints, s \in Slippages, a \in Amounts,
           b \in BOOLEAN, c \in BOOLEAN :
          frames' = [frames EXCEPT ![i] =
            [f EXCEPT !.args = [input_token_mint |-> im,
                                output_token_mint |-> om,
                                slippage_bps |-> s, amount_specified |-> a,
                                swap_base_in |-> b, confirmed |-> c],
                      !.pc = "load_amm_keys"]]
     /\ UNCHANGED rng

\* lines 41-45
LoadAmmKeys(i) ==
  LET f == frames[i]
  IN /\ f.pc = "load_amm_keys"
     /\ \E ok \in BOOLEAN, p \in Pools :
          frames' = [frames EXCEPT ![i] =
            [f EXCEPT !.pc = Try(ok, "get_keys_for_market"),
                      !.result = IF ok THEN f.result ELSE "Err",
                      !.log = Append(f.log, IF ok THEN "load_amm_keys"
                                            ELSE "err:load_amm_keys"),
                      !.amm_keys = IF ok THEN [amm_coin_mint |-> p[1],
                                               amm_pc_mint |-> p[2]]
                                   ELSE f.amm_keys]]
     /\ UNCHANGED rng

\* lines 47-51
GetKeysForMarket(i) ==
  LET f == frames[i]
  IN /\ f.pc = "get_keys_for_market"
     /\ \E ok \in BOOLEAN :
          frames' = [frames EXCEPT ![i] =
            [f EXCEPT !.pc = Try(ok, "calculate_pool_vault_amounts"),
                      !.result = IF ok THEN f.result ELSE "Err",
                      !.log = Append(f.log, IF ok THEN "get_keys_for_market"
                                            ELSE "err:get_keys_for_market")]]
     /\ UNCHANGED rng

\* lines 53-60
CalculatePoolVaultAmounts(i) ==
  LET f == frames[i]
  IN /\ f.pc = "calculate_pool_vault_amounts"
     /\ \E ok \in BOOLEAN, p \in Reserves, c \in Reserves, fee \in Fees :
          frames' = [frames EXCEPT ![i] =
            [f EXCEPT !.pc = Try(ok, "swap_with_slippage"),
                      !.result = IF ok THEN f.result ELSE "Err",
                      !.log = Append(f.log,
                                IF ok THEN "calculate_pool_vault_amounts"
                                ELSE "err:calculate_pool_vault_amounts"),
                      !.vault_amounts =
                         IF ok THEN [pool_pc_vault_amount |-> p,
                                     pool_coin_vault_amount |-> c,
                                     swap_fee_numerator |-> fee[1],
                                     swap_fee_denominator |-> fee[2]]
                         ELSE f.vault_amounts]]
     /\ UNCHANGED rng

\* lines 61-81: the direction, the quote, the empty Swap
SwapWithSlippage(i) ==
  LET f == frames[i]
      dir == SwapDirection(f.args.input_token_mint,
                           f.args.output_token_mint, f.amm_keys)
      t == Quote(f.vault_amounts, dir, f.args)
  IN /\ f.pc = "swap_with_slippage"
     /\ \E ok \in BOOLEAN :
          frames' = [frames EXCEPT ![i] =
            [f EXCEPT !.direction = dir,
                      !.pc = IF ok /\ t = -1 THEN "panicked"
                             ELSE Try(ok, "handle_source"),
                      !.result = CASE ~ok -> "Err"
                                   [] t = -1 -> "panic"
                                   [] OTHER -> f.result,
                      !.log = Append(f.log,
                                CASE ~ok -> "err:swap_with_slippage"
                                  [] t = -1 -> "panic:swap_with_slippage"
                                  [] OTHER -> "swap_with_slippage"),
                      !.other_amount_threshold =
                         IF ok /\ t # -1 THEN t ELSE f.other_amount_threshold,
                      !.swap = [pre_swap_instructions |-> <<>>,
                                post_swap_instructions |-> <<>>]]]
     /\ UNCHANGED rng

\* mutant: the Swap struct is one object shared by all invocations
HandleSource_SharedSwap(i) ==
  LET f == frames[i]
  IN /\ f.pc = "handle_source"
     /\ \E r \in handle_token_account(f.swap, f.args.input_token_mint,
                                      f.args.amount_specified, Wallet, Wallet,
                                      rng + 1) :
          /\ frames' = [j \in DOMAIN frames |->
               IF j = i
               THEN [f EXCEPT
                      !.pc = IF r.status = "panic" THEN "panicked"
                             ELSE Try(r.status = "Ok", "handle_destination"),
                      !.result = CASE r.status = "Ok" -> f.result
                                   [] r.status = "Err" -> "Err"
                                   [] OTHER -> "panic",
                      !.log = Append(f.log,
                                CASE r.status = "Ok" -> "handle_source"
                                  [] r.status = "Err" -> "err:handle_source"
                                  [] OTHER -> "panic:handle_source"),
                      !.swap = r.swap,
                      !.user_source = r.token,
                      !.rents = [f.rents EXCEPT !.source = r.rent]]
               ELSE [frames[j] EXCEPT !.swap = r.swap]]
          /\ rng' = rng + r.seeds

\* lines 82-89
HandleSource(i) ==
  LET f == frames[i]
  IN /\ f.pc = "handle_source"
     /\ \E r \in handle_token_account(f.swap, f.args.input_token_mint,
                                      f.args.amount_specified, Wallet, Wallet,
                                      rng + 1) :
          /\ frames' = [frames EXCEPT ![i] =
               [f EXCEPT
                  !.pc = IF r.status = "panic" THEN "panicked"
                         ELSE Try(r.status = "Ok", "handle_destination"),
                  !.result = CASE r.status = "Ok" -> f.result
                               [] r.status = "Err" -> "Err"
                               [] OTHER -> "panic",
                  !.log = Append(f.log,
                            CASE r.status = "Ok" -> "handle_source"
                              [] r.status = "Err" -> "err:handle_source"
                              [] OTHER -> "panic:handle_source"),
                  !.swap = r.swap,
                  !.user_source = r.token,
                  !.rents = [f.rents EXCEPT !.source = r.rent]]]
          /\ rng' = rng + r.seeds

\* mutant: the destination account is prepared with the trade amount
HandleDestination_WithAmount(i) ==
  LET f == frames[i]
  IN /\ f.pc = "handle_destination"
     /\ \E r \in handle_token_account(f.swap, f.args.output_token_mint,
                                      f.args.amount_specified, Wallet, Wallet,
                                      rng + 1) :
          /\ frames' = [frames EXCEPT ![i] =
               [f EXCEPT
                  !.pc = IF r.status = "panic" THEN "panicked"
                         ELSE Try(r.status = "Ok", "amm_swap"),
                  !.result = CASE r.status = "Ok" -> f.result
                               [] r.status = "Err" -> "Err"
                               [] OTHER -> "panic",
                  !.log = Append(f.log,
                            CASE r.status = "Ok" -> "handle_destination"
                              [] r.status = "Err" -> "err:handle_destination"
                              [] OTHER -> "panic:handle_destination"),
                  !.swap = r.swap,
                  !.user_destination = r.token,
                  !.rents = [f.rents EXCEPT !.destination = r.rent]]]
          /\ rng' = rng + r.seeds

\* lines 90-97
HandleDestination(i) ==
  LET f == frames[i]
  IN /\ f.pc = "handle_destination"
     /\ \E r \in handle_token_account(f.swap, f.args.output_token_mint, 0,
                                      Wallet, Wallet, rng + 1) :
          /\ frames' = [frames EXCEPT ![i] =
               [f EXCEPT
                  !.pc = IF r.status = "panic" THEN "panicked"
                         ELSE Try(r.status = "Ok", "amm_swap"),
                  !.result = CASE r.status = "Ok" -> f.result
                               [] r.status = "Err" -> "Err"
                               [] OTHER -> "panic",
                  !.log = Append(f.log,
                            CASE r.status = "Ok" -> "handle_destination"
                              [] r.status = "Err" -> "err:handle_destination"
                              [] OTHER -> "panic:handle_destination"),
                  !.swap = r.swap,
                  !.user_destination = r.token,
                  !.rents = [f.rents EXCEPT !.destination = r.rent]]]
          /\ rng' = rng + r.seeds

\* lines 99-141: the swap instruction, then the instruction list
BuildSwapIx(i) ==
  LET f == frames[i]
      ix == amm_swap(f.user_source, f.user_destination,
                     f.args.amount_specified, f.other_amount_threshold,
                     f.args.swap_base_in)
  IN /\ f.pc = "amm_swap"
     /\ \E ok \in BOOLEAN :
          frames' = [frames EXCEPT ![i] =
            [f EXCEPT !.pc = Try(ok, AfterAssembly(f.args.confirmed)),
                      !.result = IF ok THEN f.result ELSE "Err",
                      !.log = Append(f.log, IF ok THEN "amm_swap"
                                            ELSE "err:amm_swap"),
                      !.swap_ix = IF ok THEN ix ELSE f.swap_ix,
                      !.ixs = IF ok
                              THEN ConcatIxs(f.swap.pre_swap_instructions, ix,
                                             f.swap.post_swap_instructions)
                              ELSE f.ixs]]
     /\ UNCHANGED rng

\* lines 142-149: dialoguer::Confirm ... interact()?
Confirm(i) ==
  LET f == frames[i]
  IN /\ f.pc = "confirm"
     /\ \E answer \in {"yes", "no", "Err"} :
          LET next == Try(answer # "Err", AfterConfirm(answer = "yes"))
          IN frames' = [frames EXCEPT ![i] =
               [f EXCEPT !.pc = next,
                         !.result = CASE answer = "Err" -> "Err"
                                      [] next = "returned" -> "Ok"
                                      [] OTHER -> f.result,
                         !.log = Append(f.log,
                                   CASE answer = "yes" -> "confirm:yes"
                                     [] answer = "no" -> "confirm:no"
                                     [] OTHER -> "err:confirm")]]
     /\ UNCHANGED rng

\* mutant: a failed fetch of the blockhash does not abort, the transaction is
\* signed with the default hash
GetLatestBlockhash_NoAbort(i) ==
  LET f == frames[i]
  IN /\ f.pc = "get_latest_blockhash"
     /\ \E ok \in BOOLEAN :
          frames' = [frames EXCEPT ![i] =
            [f EXCEPT !.pc = "sign",
                      !.log = Append(f.log, IF ok THEN "get_latest_blockhash"
                                            ELSE "err:get_latest_blockhash"),
                      !.tx = IF ok THEN [f.tx EXCEPT !.blockhash = 1]
                             ELSE f.tx]]
     /\ UNCHANGED rng

\* line 154: the last argument of new_signed_with_payer is evaluated first
GetLatestBlockhash(i) ==
  LET f == frames[i]
  IN /\ f.pc = "get_latest_blockhash"
     /\ \E ok \in BOOLEAN :
          frames' = [frames EXCEPT ![i] =
            [f EXCEPT !.pc = Try(ok, "sign"),
                      !.result = IF ok THEN f.result ELSE "Err",
                      !.log = Append(f.log, IF ok THEN "get_latest_blockhash"
                                            ELSE "err:get_latest_blockhash"),
                      !.tx = IF ok THEN [f.tx EXCEPT !.blockhash = 1]
                             ELSE f.tx]]
     /\ UNCHANGED rng

\* lines 150-155: Transaction::new_signed_with_payer
Sign(i) ==
  LET f == frames[i]
  IN /\ f.pc = "sign"
     /\ frames' = [frames EXCEPT ![i] =
          [f EXCEPT !.tx = [instructions |-> f.ixs, payer |-> Wallet,
                            signed |-> TRUE, blockhash |-> f.tx.blockhash],
                    !.pc = "send_tx",
                    !.log = Append(f.log, "sign")]]
     /\ UNCHANGED rng

\* lines 156-163: provider.send_tx(&tx, true)
SendTx(i) ==
  LET f == frames[i]
  IN /\ f.pc = "send_tx"
     /\ \E ok \in BOOLEAN :
          LET next == AfterSendTx(ok)
          IN frames' = [frames EXCEPT ![i] =
               [f EXCEPT !.pc = next,
                         !.result = IF next = "returned" THEN "Ok"
                                    ELSE f.result,
                         !.log = Append(f.log, IF ok THEN "send_tx:ok"
                                               ELSE "send_tx:err")]]
     /\ UNCHANGED rng

\* lines 163-169: dbg_print_tx, simulate_transaction(&tx).unwrap(), Ok(())
SimulateTransaction(i) ==
  LET f == frames[i]
  IN /\ f.pc = "simulate_transaction"
     /\ \E ok \in BOOLEAN :
          frames' = [frames EXCEPT ![i] =
            [f EXCEPT !.pc = IF ok THEN "returned" ELSE "panicked",
                      !.result = IF ok THEN ResultAfterSimulation
                                 ELSE "panic",
                      !.log = Append(f.log,
                                IF ok THEN "simulate_transaction:ok"
                                ELSE "simulate_transaction:err")]]
     /\ UNCHANGED rng

Next ==
  \/ \E i \in Invocations : Call(i)
  \/ \E i \in Invocations : LoadAmmKeys(i)
  \/ \E i \in Invocations : GetKeysForMarket(i)
  \/ \E i \in Invocations : CalculatePoolVaultAmounts(i)
  \/ \E i \in Invocations : SwapWithSlippage(i)
  \/ \E i \in Invocations : HandleSource(i)
  \/ \E i \in Invocations : HandleDestination(i)
  \/ \E i \in Invocations : BuildSwapIx(i)
  \/ \E i \in Invocations : Confirm(i)
  \/ \E i \in Invocations : GetLatestBlockhash(i)
  \/ \E i \in Invocations : Sign(i)
  \/ \E i \in Invocations : SendTx(i)
  \/ \E i \in Invocations : SimulateTransaction(i)

Spec == Init /\ [][Next]_vars

(* -------------- the locals of the first invocation --------------------- *)
pc == frames[1].pc
args == frames[1].args
amm_keys == frames[1].amm_keys
vault_amounts == frames[1].vault_amounts
direction == frames[1].direction
other_amount_threshold == frames[1].other_amount_threshold
swap == frames[1].swap
user_source == frames[1].user_source
user_destination == frames[1].user_destination
rents == frames[1].rents
swap_ix == frames[1].swap_ix
ixs == frames[1].ixs
tx == frames[1].tx
result == frames[1].result
log == frames[1].log

(* ------------------------- helper definitions -------------------------- *)
InLog(e) == \E i \in 1..Len(log) : log[i] = e
Count(S) == Cardinality({i \in 1..Len(log) : log[i] \in S})
LastLog == IF log = <<>> THEN "-" ELSE log[Len(log)]
Terminated == pc \in {"returned", "panicked"}
IsNative(mint) == mint = SOLANA_PROGRAM_ID

GateEvents == {"confirm:yes", "confirm:no", "err:confirm"}
AnchorEvents == {"get_latest_blockhash", "err:get_latest_blockhash"}
SendEvents == {"send_tx:ok", "send_tx:err"}
SimEvents == {"simulate_transaction:ok", "simulate_transaction:err"}
\* the failures of resolution, sampling, quote, preparation, instruction building
EarlyErrors == {"err:load_amm_keys", "err:get_keys_for_market",
                "err:calculate_pool_vault_amounts", "err:swap_with_slippage",
                "err:handle_source", "err:handle_destination", "err:amm_swap"}

\* what one preparation contributes, by the kind of its mint
PreOps(mint) ==
  IF IsNative(mint) THEN <<"create_account_with_seed", "initialize_account">>
  ELSE <<"create_associated_token_account_idempotent">>
PostOps(mint) == IF IsNative(mint) THEN <<"close_account">> ELSE <<>>
\* n copies of the address a
Rep(a, n) == [i \in 1..n |-> a]
\* the token account an instruction is for (none for budget and swap)
IxAccount(ix) ==
  IF ix.op \in {"create_account_with_seed", "initialize_account",
                "close_account", "create_associated_token_account_idempotent",
                "create_associated_token_account"}
  THEN ix.account ELSE NoAddress
\* the token accounts an instruction references
IxRefs(ix) ==
  IF ix.op = "swap" THEN {ix.source, ix.destination}
  ELSE IF IxAccount(ix) = NoAddress THEN {} ELSE {ix.account}
OpsOf(seq) == [i \in 1..Len(seq) |-> seq[i].op]
AccountsOf(seq) == [i \in 1..Len(seq) |-> IxAccount(seq[i])]

(* ------------------------------ claims --------------------------------- *)
\* C1: whenever send_tx returned an error, the invocation ends with a
\* failure, never with a success, and the simulation has been run before.
C1_SubmissionFailureIsFailure ==
  (InLog("send_tx:err") /\ Terminated) =>
     (result # "Ok" /\ Count(SimEvents) = 1)

\* C2: the signed instruction list is exactly: set_compute_unit_price,
\* set_compute_unit_limit, the source account's pre-swap instructions, the
\* destination account's pre-swap instructions, the swap instruction, the
\* source account's post-swap instructions, the destination account's
\* post-swap instructions, for every kind of input and output mint.
C2_InstructionOrder ==
  tx.signed =>
    LET i == args.input_token_mint
        o == args.output_token_mint
        l == tx.instructions
    IN /\ OpsOf(l) = <<"set_compute_unit_price", "set_compute_unit_limit">>
                       \o PreOps(i) \o PreOps(o) \o <<"swap">>
                       \o PostOps(i) \o PostOps(o)
       /\ AccountsOf(l) = <<NoAddress, NoAddress>>
                       \o Rep(user_source, Len(PreOps(i)))
                       \o Rep(user_destination, Len(PreOps(o)))
                       \o <<NoAddress>>
                       \o Rep(user_source, Len(PostOps(i)))
                       \o Rep(user_destination, Len(PostOps(o)))
       /\ l[1].price = COMPUTE_UNIT_PRICE
       /\ l[2].units = COMPUTE_UNIT_LIMIT
       /\ l[3 + Len(PreOps(i)) + Len(PreOps(o))] = swap_ix

C2_Witness ==
  /\ tx.signed
  /\ IsNative(args.input_token_mint)
  /\ ~IsNative(args.output_token_mint)

\* C3: once the confirmation gate has answered no, the invocation has
\* returned and nothing follows the answer: no anchor is fetched, no
\* transaction is signed, submitted or simulated.
C3_GateNoCancels ==
  InLog("confirm:no") =>
    /\ pc = "returned"
    /\ LastLog = "confirm:no"
    /\ Count(AnchorEvents \cup SendEvents \cup SimEvents \cup {"sign"}) = 0
    /\ tx = NoTx

C3_Witness == InLog("confirm:no") /\ ixs # <<>>

\* C4: when resolution, reserve sampling, the quote, the preparation of a
\* token account or the building of the swap instruction fails, the
\* invocation returns that error at once: the gate is not consulted, nothing
\* is signed and nothing is submitted.
C4_EarlyErrorReturns ==
  (\E e \in EarlyErrors : InLog(e)) =>
    /\ pc = "returned"
    /\ result = "Err"
    /\ LastLog \in EarlyErrors
    /\ Count(GateEvents \cup AnchorEvents \cup SendEvents \cup {"sign"}) = 0
    /\ ~tx.signed

C4_Witness == InLog("err:handle_destination") /\ swap.pre_swap_instructions # <<>>

\* C5: in the assembled list, the source and the destination account of the
\* swap instruction are each established by instructions placed before the
\* swap instruction (create-with-seed then initialize, or the create-if-absent
\* of the derived account), and no instruction placed after a close
\* instruction references the account it closes.
C5_Established(l, k, a) ==
  IF a.kind = "with_seed"
  THEN \E n \in 1..(k - 1), m \in 1..(k - 1) :
         /\ n < m
         /\ l[n].op = "create_account_with_seed" /\ l[n].account = a
         /\ l[m].op = "initialize_account" /\ l[m].account = a
  ELSE \E n \in 1..(k - 1) :
         /\ l[n].op = "create_associated_token_account_idempotent"
         /\ l[n].account = a

C5_AccountsEstablishedAndNotReused ==
  ixs # <<>> =>
    /\ \E k \in 1..Len(ixs) : ixs[k].op = "swap"
    /\ \A k \in 1..Len(ixs) :
         ixs[k].op = "swap" =>
           /\ ixs[k].source = user_source
           /\ ixs[k].destination = user_destination
           /\ C5_Established(ixs, k, ixs[k].source)
           /\ C5_Established(ixs, k, ixs[k].destination)
    /\ \A c \in 1..Len(ixs) :
         ixs[c].op = "close_account" =>
           \A j \in (c + 1)..Len(ixs) : ixs[c].account \notin IxRefs(ixs[j])

C5_Witness ==
  /\ ixs # <<>>
  /\ IsNative(args.input_token_mint)
  /\ IsNative(args.output_token_mint)

\* C6: when the input and the output mint are not the two mints of the pool,
\* the quote step fails: no swap instruction is built, nothing is submitted.
C6_MintMismatchFailsQuote ==
  (amm_keys # NoKeys
   /\ {args.input_token_mint, args.output_token_mint}
        # {amm_keys.amm_coin_mint, amm_keys.amm_pc_mint}) =>
    /\ ~InLog("swap_with_slippage")
    /\ swap_ix = NoIx
    /\ Count(SendEvents) = 0

C8_NativeTail(token, pre, post) ==
  /\ Len(pre) >= 2 /\ Len(post) >= 1
  /\ pre[Len(pre) - 1].op = "create_account_with_seed"
  /\ pre[Len(pre) - 1].account = token
  /\ pre[Len(pre)].op = "initialize_account"
  /\ pre[Len(pre)].account = token
  /\ pre[Len(pre)].mint = SOLANA_PROGRAM_ID
  /\ post[Len(post)].op = "close_account"
  /\ post[Len(post)].account = token
  /\ token.kind = "with_seed"

C8_NativePreparation ==
  LET pre == swap.pre_swap_instructions
      post == swap.post_swap_instructions
      i == args.input_token_mint
      o == args.output_token_mint
  IN /\ (InLog("handle_source") /\ ~InLog("handle_destination")
         /\ IsNative(i)) =>
           /\ Len(pre) = 2 /\ Len(post) = 1
           /\ C8_NativeTail(user_source, pre, post)
     /\ (InLog("handle_destination") /\ IsNative(o)) =>
           /\ Len(pre) = Len(PreOps(i)) + 2
           /\ Len(post) = Len(PostOps(i)) + 1
           /\ C8_NativeTail(user_destination, pre, post)
     /\ (InLog("handle_destination") /\ IsNative(i) /\ IsNative(o)) =>
           /\ pre[1].seed # pre[3].seed
           /\ pre[1].base = pre[3].base
           /\ user_source # user_destination

C8_Witness ==
  /\ InLog("handle_destination")
  /\ IsNative(args.input_token_mint)
  /\ IsNative(args.output_token_mint)

C10_SubmitOnceSimulateOnFailure ==
  /\ Count(SendEvents) <= 1
  /\ Count(SimEvents) <= 1
  /\ Count(SimEvents) = 1 => (InLog("send_tx:err") /\ tx.signed)
  /\ InLog("send_tx:ok") => (Count(SimEvents) = 0 /\ pc = "returned")
  /\ InLog("send_tx:err") =>
       /\ pc \in {"simulate_transaction", "returned", "panicked"}
       /\ Terminated => Count(SimEvents) = 1
       /\ LastLog \in SimEvents \cup {"send_tx:err"}

C10_Witness == InLog("send_tx:err") /\ Count(SimEvents) = 1

\* the position of the first occurrence of e in the log (0 when absent)
Pos(e) == IF InLog(e) THEN CHOOSE i \in 1..Len(log) :
                             log[i] = e /\ \A j \in 1..(i - 1) : log[j] # e
          ELSE 0

\* C11: the blockhash is fetched within the invocation, once, right after the
\* gate has been passed (or skipped with confirmed = true) and before the
\* signing; the order of a submitting execution is gate passed, blockhash
\* fetched, transaction signed, transaction submitted; a failed fetch returns
\* an error with nothing signed and nothing submitted.
C11_AnchorOrder ==
  /\ Count(AnchorEvents) <= 1
  /\ Count({"sign"}) <= 1
  /\ \A k \in 1..Len(log) :
       /\ log[k] \in AnchorEvents =>
            /\ k > 1
            /\ log[k - 1] = IF args.confirmed THEN "amm_swap" ELSE "confirm:yes"
       /\ log[k] = "sign" => (k > 1 /\ log[k - 1] = "get_latest_blockhash")
       /\ log[k] \in SendEvents => (k > 1 /\ log[k - 1] = "sign")
  /\ tx.signed => (InLog("get_latest_blockhash") /\ tx.blockhash = 1)
  /\ InLog("err:get_latest_blockhash") =>
       /\ pc = "returned" /\ result = "Err"
       /\ LastLog = "err:get_latest_blockhash"
       /\ ~tx.signed
       /\ Count(SendEvents \cup {"sign"}) = 0

C11_Witness ==
  /\ InLog("confirm:yes")
  /\ Count(SendEvents) = 1
  /\ Pos("confirm:yes") < Pos("get_latest_blockhash")
  /\ Pos("get_latest_blockhash") < Pos("sign")

BuildEvents == {"handle_source", "err:handle_source", "panic:handle_source",
                "handle_destination", "err:handle_destination",
                "panic:handle_destination", "amm_swap", "err:amm_swap"}

\* C12: when the sampled vault amounts are zero on one side, the quote step
\* returns an error and nothing is built: handle_token_account is not called,
\* no swap instruction is built, nothing is signed or submitted.
C12_ZeroLiquidityFailsQuote ==
  (/\ InLog("calculate_pool_vault_amounts")
   /\ pc # "swap_with_slippage"
   /\ (vault_amounts.pool_pc_vault_amount = 0)
        # (vault_amounts.pool_coin_vault_amount = 0)) =>
    /\ InLog("err:swap_with_slippage")
    /\ pc = "returned" /\ result = "Err"
    /\ Count(BuildEvents \cup SendEvents \cup {"sign"}) = 0
    /\ swap_ix = NoIx

(* ------------- the quote step over every slippage_bps ------------------ *)
\* the invocation right after calculate_pool_vault_amounts returned positive
\* vault amounts, for every slippage_bps of 0..TEN_THOUSAND
InitSlippage ==
  /\ \E i \in {"A", "B"}, s \in 0..TEN_THOUSAND, b \in BOOLEAN,
        p \in Reserves \ {0}, c \in Reserves \ {0}, f \in Fees :
       frames = [n \in {1} |->
         [Frame0 EXCEPT
            !.pc = "swap_with_slippage",
            !.args = [input_token_mint |-> i,
                      output_token_mint |-> IF i = "A" THEN "B" ELSE "A",
                      slippage_bps |-> s, amount_specified |-> MaxAmount,
                      swap_base_in |-> b, confirmed |-> FALSE],
            !.amm_keys = [amm_coin_mint |-> "A", amm_pc_mint |-> "B"],
            !.vault_amounts = [pool_pc_vault_amount |-> p,
                               pool_coin_vault_amount |-> c,
                               swap_fee_numerator |-> f[1],
                               swap_fee_denominator |-> f[2]],
            !.log = <<"load_amm_keys", "get_keys_for_market",
                      "calculate_pool_vault_amounts">>]]
  /\ rng = 0

NextSlippage == \E i \in Invocations : SwapWithSlippage(i)

SpecSlippage == InitSlippage /\ [][NextSlippage]_vars

\* the quote for the same vault amounts, direction and amount, at slippage s
QuoteAt(s) == Quote(vault_amounts, direction, [args EXCEPT !.slippage_bps = s])
\* the unslipped counter-amount
ExactQuote ==
  swap_exact_amount(vault_amounts.pool_pc_vault_amount,
                    vault_amounts.pool_coin_vault_amount,
                    vault_amounts.swap_fee_numerator,
                    vault_amounts.swap_fee_denominator, direction,
                    args.amount_specified, args.swap_base_in)
PositiveReserves ==
  /\ vault_amounts.pool_pc_vault_amount > 0
  /\ vault_amounts.pool_coin_vault_amount > 0

SourceCreateIx == swap.pre_swap_instructions[1]
DestinationCreateIx ==
  swap.pre_swap_instructions[Len(swap.pre_swap_instructions) - 1]
SourcePrepared == InLog("handle_source")
DestinationPrepared == InLog("handle_destination")

\* C14 as stated: every native account the swap prepares, on the input side
\* and on the output side, is funded with the rent-exempt minimum plus the
\* trade amount (the sum being the u64 sum the code computes).
C14_FundedWithRentPlusAmount ==
  /\ (SourcePrepared /\ IsNative(args.input_token_mint)) =>
       SourceCreateIx.lamports =
         (rents.source + args.amount_specified) % U64Modulus
  /\ (DestinationPrepared /\ IsNative(args.output_token_mint)) =>
       DestinationCreateIx.lamports =
         (rents.destination + args.amount_specified) % U64Modulus

\* C14 amended: the native account prepared for the input mint is funded
\* with the u64 sum of the rent-exempt minimum and the trade amount (the
\* exact sum whenever it fits in u64); the native account prepared for the
\* output mint is funded with the rent-exempt minimum alone.
C14_FundingBySide ==
  /\ (SourcePrepared /\ IsNative(args.input_token_mint)) =>
       /\ SourceCreateIx.op = "create_account_with_seed"
       /\ SourceCreateIx.account = user_source
       /\ rents.source \in Rents
       /\ SourceCreateIx.lamports =
            (rents.source + args.amount_specified) % U64Modulus
       /\ (rents.source + args.amount_specified < U64Modulus) =>
            SourceCreateIx.lamports = rents.source + args.amount_specified
  /\ (DestinationPrepared /\ IsNative(args.output_token_mint)) =>
       /\ DestinationCreateIx.op = "create_account_with_seed"
       /\ DestinationCreateIx.account = user_destination
       /\ rents.destination \in Rents
       /\ DestinationCreateIx.lamports = rents.destination

C14_Witness ==
  /\ DestinationPrepared
  /\ IsNative(args.input_token_mint)
  /\ IsNative(args.output_token_mint)
  /\ args.amount_specified > 0
  /\ SourceCreateIx.lamports = rents.source + args.amount_specified
  /\ DestinationCreateIx.lamports = rents.destination

\* C16: after a failed submission the invocation always ends by returning a
\* result, whether the simulation call succeeds or fails; it never panics.
C16_FailureBranchReturns ==
  InLog("send_tx:err") =>
    /\ pc # "panicked"
    /\ result # "panic"
    /\ Terminated => pc = "returned"

\* the account handle_token_account derives for a mint
PreparedFor(token, mint) ==
  IF IsNative(mint)
  THEN /\ token.kind = "with_seed"
       /\ \E k \in 1..Len(swap.pre_swap_instructions) :
            /\ swap.pre_swap_instructions[k].op = "initialize_account"
            /\ swap.pre_swap_instructions[k].account = token
            /\ swap.pre_swap_instructions[k].mint = mint
  ELSE token.kind = "ata" /\ token.mint = mint /\ token.base = Wallet

\* C17: the swap instruction carries the amount_specified and the
\* swap_base_in flag of the call, as threshold the value the quote returned
\* for the sampled vault amounts, the derived direction and slippage_bps, as
\* source the account prepared for the input mint and as destination the
\* account prepared for the output mint.
C17_SwapIxUsesQuoteValues ==
  swap_ix # NoIx =>
    /\ swap_ix.op = "swap"
    /\ swap_ix.amount = args.amount_specified
    /\ swap_ix.base_in = args.swap_base_in
    /\ swap_ix.threshold = other_amount_threshold
    /\ swap_ix.threshold =
         swap_with_slippage(vault_amounts.pool_pc_vault_amount,
                            vault_amounts.pool_coin_vault_amount,
                            vault_amounts.swap_fee_numerator,
                            vault_amounts.swap_fee_denominator, direction,
                            args.amount_specified, args.swap_base_in,
                            args.slippage_bps)
    /\ swap_ix.source = user_source
    /\ swap_ix.destination = user_destination
    /\ PreparedFor(swap_ix.source, args.input_token_mint)
    /\ PreparedFor(swap_ix.destination, args.output_token_mint)

C17_Witness ==
  /\ swap_ix # NoIx
  /\ swap_ix.threshold > 0
  /\ args.slippage_bps = 50
  /\ IsNative(args.input_token_mint)
  /\ ~IsNative(args.output_token_mint)

AfterGatePcs == {"get_latest_blockhash", "sign", "send_tx",
                 "simulate_transaction", "returned", "panicked"}

\* C18: with confirmed = true the gate is never consulted and, once the
\* instruction list is assembled, the invocation goes on to the blockhash
\* fetch, the signing and the submission (it ends only after a submission or
\* a failed fetch); with confirmed = false the gate is consulted exactly
\* once, right after the assembly and before the blockhash fetch.
C18_GateByConfirmed ==
  /\ args.confirmed =>
       /\ Count(GateEvents) = 0
       /\ pc # "confirm"
       /\ InLog("amm_swap") =>
            /\ pc \in AfterGatePcs
            /\ Terminated =>
                 (InLog("err:get_latest_blockhash") \/ Count(SendEvents) = 1)
  /\ (~args.confirmed /\ pc # "idle") =>
       /\ Count(GateEvents) <= 1
       /\ InLog("amm_swap") => (Count(GateEvents) = 1 <=> pc # "confirm")
       /\ \A k \in 1..Len(log) :
            /\ log[k] \in GateEvents =>
                 (k > 1 /\ log[k - 1] = "amm_swap" /\ ixs # <<>>)
            /\ log[k] \in AnchorEvents => (k > 1 /\ log[k - 1] = "confirm:yes")

C18_Witness ==
  /\ args.confirmed
  /\ Count(SendEvents) = 1
  /\ Count(GateEvents) = 0

\* C19: for every rent and every amount the lamports funding a native
\* account are the mathematical sum rent + amount: the addition neither
\* wraps nor aborts the invocation.
C19_LamportsNeverOverflow ==
  /\ ~InLog("panic:handle_source")
  /\ ~InLog("panic:handle_destination")
  /\ (SourcePrepared /\ IsNative(args.input_token_mint)) =>
       SourceCreateIx.lamports = rents.source + args.amount_specified
  /\ (DestinationPrepared /\ IsNative(args.output_token_mint)) =>
       DestinationCreateIx.lamports = rents.destination + 0

(* ------------------- two interleaved invocations ----------------------- *)
\* two invocations of Raydium::swap by the same wallet, both having resolved
\* the pool (SOL, A); from there on their steps interleave freely
InitTwo ==
  /\ \E o1 \in {SOLANA_PROGRAM_ID, "A"} :
       frames = [i \in {1, 2} |->
         [Frame0 EXCEPT
            !.pc = "get_keys_for_market",
            !.args = [input_token_mint |-> SOLANA_PROGRAM_ID,
                      output_token_mint |->
                        IF i = 1 THEN o1 ELSE SOLANA_PROGRAM_ID,
                      slippage_bps |-> 0, amount_specified |-> 1,
                      swap_base_in |-> TRUE, confirmed |-> TRUE],
            !.amm_keys = [amm_coin_mint |-> SOLANA_PROGRAM_ID,
                          amm_pc_mint |-> "A"],
            !.log = <<"load_amm_keys">>]]
  /\ rng = 0

NextTwo ==
  \/ \E i \in Invocations : GetKeysForMarket(i)
  \/ \E i \in Invocations : CalculatePoolVaultAmounts(i)
  \/ \E i \in Invocations : SwapWithSlippage(i)
  \/ \E i \in Invocations : HandleSource(i)
  \/ \E i \in Invocations : HandleDestination(i)
  \/ \E i \in Invocations : BuildSwapIx(i)
  \/ \E i \in Invocations : GetLatestBlockhash(i)
  \/ \E i \in Invocations : Sign(i)
  \/ \E i \in Invocations : SendTx(i)
  \/ \E i \in Invocations : SimulateTransaction(i)

SpecTwo == InitTwo /\ [][NextTwo]_vars

Range(seq) == {seq[k] : k \in 1..Len(seq)}
\* the seed-derived accounts the instructions of a frame are for
SeededAccounts(f) ==
  {a \in UNION {IxRefs(ix) : ix \in Range(f.swap.pre_swap_instructions)
                                    \cup Range(f.swap.post_swap_instructions)
                                    \cup Range(f.ixs)
                                    \cup Range(f.tx.instructions)} :
     a.kind = "with_seed"}
FrameLogged(f, e) == \E k \in 1..Len(f.log) : f.log[k] = e
FrameLast(f) == IF f.log = <<>> THEN "-" ELSE f.log[Len(f.log)]
\* the result an invocation running alone has after the last call it made
ResultAlone(f) ==
  CASE FrameLast(f) \in {"send_tx:ok", "simulate_transaction:ok"} -> "Ok"
    [] FrameLast(f) \in {"panic:swap_with_slippage", "panic:handle_source",
                         "panic:handle_destination",
                         "simulate_transaction:err"} -> "panic"
    [] FrameLast(f) \in EarlyErrors \cup {"err:get_latest_blockhash"} -> "Err"
    [] OTHER -> "pending"
\* the lists of a frame hold what its own preparations produced, no more
ListsAlone(f) ==
  LET im == f.args.input_token_mint
      om == f.args.output_token_mint
      pre == f.swap.pre_swap_instructions
      post == f.swap.post_swap_instructions
  IN /\ ~FrameLogged(f, "handle_source") => (pre = <<>> /\ post = <<>>)
     /\ (FrameLogged(f, "handle_source")
         /\ ~FrameLogged(f, "handle_destination")) =>
          /\ OpsOf(pre) = PreOps(im)
          /\ AccountsOf(pre) = Rep(f.user_source, Len(PreOps(im)))
          /\ OpsOf(post) = PostOps(im)
          /\ AccountsOf(post) = Rep(f.user_source, Len(PostOps(im)))
     /\ FrameLogged(f, "handle_destination") =>
          /\ OpsOf(pre) = PreOps(im) \o PreOps(om)
          /\ AccountsOf(pre) = Rep(f.user_source, Len(PreOps(im)))
                                 \o Rep(f.user_destination, Len(PreOps(om)))
          /\ OpsOf(post) = PostOps(im) \o PostOps(om)
          /\ AccountsOf(post) = Rep(f.user_source, Len(PostOps(im)))
                                  \o Rep(f.user_destination, Len(PostOps(om)))
     /\ f.ixs # <<>> =>
          /\ Len(f.ixs) = 3 + Len(pre) + Len(post)
          /\ \A k \in 1..Len(pre) : f.ixs[2 + k] = pre[k]
          /\ f.ixs[3 + Len(pre)] = f.swap_ix
          /\ \A k \in 1..Len(post) : f.ixs[3 + Len(pre) + k] = post[k]
     /\ f.tx.signed => f.tx.instructions = f.ixs

C15_State ==
  /\ \A i \in Invocations :
       /\ ListsAlone(frames[i])
       /\ frames[i].result = ResultAlone(frames[i])
  /\ \A i \in Invocations, j \in Invocations :
       i # j => SeededAccounts(frames[i]) \cap SeededAccounts(frames[j]) = {}

\* a step of one invocation leaves the locals of the other untouched
C15_Step ==
  \A i \in Invocations, j \in Invocations :
    (i # j /\ frames'[i] # frames[i]) => frames'[j] = frames[j]

\* C15: two interleaved invocations share no mutable state: a step of one
\* changes the locals of that one only, the instruction list and the result
\* of each are those of its own preparations and its own calls (as when it
\* runs alone), and the accounts one invocation derives never occur in the
\* instructions of the other.
C15_InvocationsIndependent == []C15_State /\ [][C15_Step]_vars

\* both lists are assembled from preparations that interleaved: the first
\* invocation drew the seeds 1 and 3, the second drew the seed 2
C15_Witness ==
  /\ Invocations = {1, 2}
  /\ frames[1].ixs # <<>>
  /\ frames[2].ixs # <<>>
  /\ {a.seed : a \in SeededAccounts(frames[1])} = {1, 3}
  /\ 2 \in {a.seed : a \in SeededAccounts(frames[2])}

====
